---- MODULE Spec2Model ----
(***************************************************************************)
(* The document ingestion pipeline of pdf-llm-backend: the upload handler  *)
(* (src/src/comms/api_server.py), the structural validator                 *)
(* (src/src/utils/validate_pdf.py), the object store adapter               *)
(* (src/src/services/s3_service.py) and the text extractor                 *)
(* (src/src/extractors/pdf_extractor.py).                                  *)
(*                                                                         *)
(* Every await of the handler is an interleaving point, so each pipeline   *)
(* stage is one action; the repository, the object store and the parsing   *)
(* libraries are collaborators whose outcome (success, raise, reported     *)
(* modified count) is an input of the action that calls them.              *)
(***************************************************************************)
EXTENDS Integers, Sequences, FiniteSets, TLC

(* ------------------------------ bounds --------------------------------- *)
\* number of upload requests that may run concurrently
MaxReq == 2
\* largest number of pages of an uploaded file
MaxPages == 2
\* largest page number and largest limit asked of GET /documents
MaxPage == 2
MaxLimit == 2

(* ------------------------- program constants --------------------------- *)
\* PDFValidator(min_file_size=1024)
MinFileSize == 1024
\* f.seek(-1024, os.SEEK_END); f.read(1024)
TailWindow == 1024
\* limit: int = Query(10, ge=1, le=100)
LimitCeiling == 100
\* doc.get("extracted_text", "")[:100]
PreviewLen == 100
PdfHeader == "%PDF-"

(* ------------------------------ strings -------------------------------- *)
EndsWith(s, suffix) ==
    /\ Len(s) >= Len(suffix)
    /\ SubSeq(s, Len(s) - Len(suffix) + 1, Len(s)) = suffix

StartsWith(s, prefix) ==
    /\ Len(s) >= Len(prefix)
    /\ SubSeq(s, 1, Len(prefix)) = prefix

Whitespace == {" ", "\n", "\t"}

RECURSIVE LStrip(_)
LStrip(s) ==
    IF Len(s) = 0 THEN ""
    ELSE IF SubSeq(s, 1, 1) \in Whitespace THEN LStrip(SubSeq(s, 2, Len(s)))
    ELSE s

RECURSIVE RStrip(_)
RStrip(s) ==
    IF Len(s) = 0 THEN ""
    ELSE IF SubSeq(s, Len(s), Len(s)) \in Whitespace
         THEN RStrip(SubSeq(s, 1, Len(s) - 1))
    ELSE s

\* str.strip()
Strip(s) == RStrip(LStrip(s))

(* ------------------------------ uploads -------------------------------- *)
(* An uploaded file: its client-supplied name and what the checks read of  *)
(* its bytes.  size: the byte length; head: the first 5 bytes (f.read(5));  *)
(* eof: whether the last TailWindow bytes contain %%EOF; enc: what         *)
(* PdfReader(path).is_encrypted gives ("raise": pypdf fails on the file);  *)
(* parse: whether pdfplumber opens the file and reads its first page       *)
(* without raising; pages: the text page.extract_text() yields for each    *)
(* page, in page order ("" for a page without characters).                 *)
FileNames == {"a.pdf", "b.pdf", "a.PDF", "a.txt"}

FileSizes == {0, MinFileSize - 1, MinFileSize, MinFileSize + 1}

PageTexts == {"", " ", "a"}

PageSeqs == UNION {[1..n -> PageTexts] : n \in 0..MaxPages}

FileBodies ==
    {[size |-> 0, head |-> "", eof |-> FALSE, enc |-> "raise",
      parse |-> "raise", pages |-> <<>>]}
    \cup
    {[size |-> sz, head |-> h, eof |-> e, enc |-> c, parse |-> "ok", pages |-> ps] :
        sz \in FileSizes \ {0}, h \in {PdfHeader, "<html"}, e \in BOOLEAN,
        c \in {"yes", "no", "raise"}, ps \in PageSeqs}
    \cup
    {[size |-> sz, head |-> h, eof |-> e, enc |-> c, parse |-> "raise", pages |-> <<>>] :
        sz \in FileSizes \ {0}, h \in {PdfHeader, "<html"}, e \in BOOLEAN,
        c \in {"yes", "no", "raise"}}

AllFiles ==
    {[name |-> n, size |-> b.size, head |-> b.head, eof |-> b.eof, enc |-> b.enc,
      parse |-> b.parse, pages |-> b.pages] : n \in FileNames, b \in FileBodies}

(* ----------------------------- validator ------------------------------- *)
ExtensionReason == "File extension is not .pdf"
SizeReason == "File size is too small (less than " \o ToString(MinFileSize) \o " bytes)"
StructureReason == "PDF structure invalid: missing header or EOF marker"
EncryptedReason == "PDF is encrypted and cannot be processed"
NoPagesReason == "PDF has no pages"
BlankReason == "PDF page is blank or contains no extractable text"
ParseError == "No /Root object! - Is this really a PDF?"
ContentFailedReason == "PDF content validation failed: " \o ParseError

\* PDFValidator._check_pdf_structure
CheckPdfStructure(f) ==
    IF f.head # PdfHeader THEN FALSE
    ELSE IF f.size < TailWindow THEN FALSE   \* seek(-1024, SEEK_END) raises OSError
    ELSE f.eof

\* the content checks with the encryption probe after the page checks
CheckPdfContentEncryptedLast(f) ==
    IF f.parse = "raise" THEN <<FALSE, ContentFailedReason>>
    ELSE IF Len(f.pages) = 0 THEN <<FALSE, NoPagesReason>>
    ELSE IF Strip(f.pages[1]) = "" THEN <<FALSE, BlankReason>>
    ELSE IF f.enc = "yes" THEN <<FALSE, EncryptedReason>>
    ELSE <<TRUE, "PDF content is valid">>

\* the content checks with one message for a blank first page and for no pages
CheckPdfContentOneReason(f) ==
    IF f.enc = "yes" THEN <<FALSE, EncryptedReason>>
    ELSE IF f.parse = "raise" THEN <<FALSE, ContentFailedReason>>
    ELSE IF Len(f.pages) = 0 THEN <<FALSE, NoPagesReason>>
    ELSE IF Strip(f.pages[1]) = "" THEN <<FALSE, NoPagesReason>>
    ELSE <<TRUE, "PDF content is valid">>

\* PDFValidator._check_pdf_content
CheckPdfContent(f) ==
    IF f.enc = "yes" THEN <<FALSE, EncryptedReason>>
    ELSE IF f.parse = "raise" THEN <<FALSE, ContentFailedReason>>
    ELSE IF Len(f.pages) = 0 THEN <<FALSE, NoPagesReason>>
    ELSE IF Strip(f.pages[1]) = "" THEN <<FALSE, BlankReason>>
    ELSE <<TRUE, "PDF content is valid">>

\* is_valid with the structure check ahead of the size check
IsValidStructureFirst(f) ==
    IF ~CheckPdfStructure(f) THEN <<FALSE, StructureReason>>
    ELSE IF f.size < MinFileSize THEN <<FALSE, SizeReason>>
    ELSE IF ~CheckPdfContent(f)[1] THEN <<FALSE, CheckPdfContent(f)[2]>>
    ELSE <<TRUE, "PDF is valid">>

\* PDFValidator.is_valid, on the temporary copy of the upload (which exists)
IsValid(f) ==
    IF f.size < MinFileSize THEN <<FALSE, SizeReason>>
    ELSE IF ~CheckPdfStructure(f) THEN <<FALSE, StructureReason>>
    ELSE IF ~CheckPdfContent(f)[1] THEN <<FALSE, CheckPdfContent(f)[2]>>
    ELSE <<TRUE, "PDF is valid">>

\* PDFValidator.is_valid_upload: the (bool, str) it returns
IsValidUpload(f) ==
    IF ~EndsWith(f.name, ".pdf") THEN <<FALSE, ExtensionReason>>
    ELSE IsValid(f)

(* ----------------------------- extractor ------------------------------- *)
\* the whitespace extract_text(layout=True) puts before the characters of a
\* page to keep their position; a page without characters yields ""
LayoutPad == " "

\* page.extract_text(layout=True)
PageTextLayout(page) == IF page = "" THEN "" ELSE LayoutPad \o page

\* the loop of PDFExtractor.extract_text over pdf.pages
RECURSIVE ExtractLoop(_, _)
ExtractLoop(text, pages) ==
    IF pages = <<>> THEN text
    ELSE IF PageTextLayout(Head(pages)) # ""
         THEN ExtractLoop(text \o PageTextLayout(Head(pages)) \o "\n\n", Tail(pages))
    ELSE ExtractLoop(text, Tail(pages))

\* an extraction that appends the separator for every page, with text or not
RECURSIVE ExtractTextEveryPage(_)
ExtractTextEveryPage(pages) ==
    IF pages = <<>> THEN ""
    ELSE PageTextLayout(Head(pages)) \o "\n\n" \o ExtractTextEveryPage(Tail(pages))

\* PDFExtractor.extract_text
ExtractText(pages) == ExtractLoop("", pages)

\* pdfplumber.open(file.file): the pages the parser finds in the stream read
\* from its position on; the document is whole only from position 0
StreamPages(f, pos) == IF pos = 0 THEN f.pages ELSE <<>>

(* ---------------------------- object store ----------------------------- *)
BucketName == "pdf-bucket"
RegionName == "us-east-1"

\* str(ObjectId): 24 hexadecimal digits
HexDigits == {"0", "1", "2", "3", "4", "5", "6", "7", "8", "9",
              "a", "b", "c", "d", "e", "f", "A", "B", "C", "D", "E", "F"}
ObjectIds == 1..(MaxReq + 1)
ObjectIdStr(id) == "65f0c0ffee0000000000000" \o ToString(id)

\* ObjectId.is_valid / ObjectId(s) accepting s
IsValidObjectIdStr(s) ==
    /\ Len(s) = 24
    /\ \A i \in 1..Len(s) : SubSeq(s, i, i) \in HexDigits

\* a key that does not carry the identifier
S3KeyShared(id) == "documents/upload.pdf"

\* s3_key = f"documents/{doc_id}.pdf"
S3Key(id) == "documents/" \o ObjectIdStr(id) \o ".pdf"

\* s3_url = f"https://{bucket}.s3.{region}.amazonaws.com/{s3_key}"
S3Url(key) == "https://" \o BucketName \o ".s3." \o RegionName \o ".amazonaws.com/" \o key

(* ------------------------------ state ---------------------------------- *)
VARIABLES
    req,        \* req[r]: upload request r (the locals of upload_pdf and its history)
    docs,       \* the document_details collection: ObjectId -> record
    s3,         \* the bucket: key -> the bytes put under it
    clock,      \* datetime.utcnow(): the time of the last call, one tick per call
    lastFetch,  \* the last response of GET /documents/{doc_id}
    tmp,        \* the requests whose temporary copy (NamedTemporaryFile) exists
    listing     \* the reader's GET /documents: its locals, then its response

vars == <<req, docs, s3, clock, lastFetch, tmp, listing>>

Requests == 1..MaxReq

NoFile == [name |-> "", size |-> 0, head |-> "", eof |-> FALSE, enc |-> "raise",
           parse |-> "raise", pages |-> <<>>]
NoResult == <<FALSE, "">>
NoId == 0
NoCount == -1
\* the stream has not been handed to the extractor
NoPos == -1
NoDoc == [filename |-> "", upload_time |-> 0, extracted_text |-> "", s3_uri |-> ""]

GoodFile(name, pages) ==
    [name |-> name, size |-> MinFileSize + 1, head |-> PdfHeader, eof |-> TRUE,
     enc |-> "no", parse |-> "ok", pages |-> pages]

\* the uploads the concurrent requests draw from
PipelineFiles ==
    { GoodFile("a.pdf", <<"a", "">>),
      [GoodFile("b.pdf", <<"a">>) EXCEPT !.size = MinFileSize - 1] }

\* the pipeline stages of upload_pdf, in the order of its statements
StageOrder == <<"validate", "insert", "object_store", "extract", "update", "readback">>

\* a request as it arrives: the UploadFile at position 0, nothing done
NewRequest(f) ==
    [pc |-> "received", file |-> f, pos |-> 0, valid |-> NoResult, doc_id |-> NoId,
     s3_url |-> "", extracted_text |-> "", modified_count |-> NoCount,
     stages |-> <<>>, resp |-> <<>>, failedAt |-> "", inserted |-> NoDoc,
     extract_pos |-> NoPos]

IdleRequest == [NewRequest(NoFile) EXCEPT !.pc = "idle"]

NoFetch == [arg |-> "", status |-> 0, body |-> NoDoc, afterSuccess |-> FALSE,
            queried |-> FALSE]

\* no GET /documents issued
NoListing == [pc |-> "idle", page |-> 1, limit |-> 1, total_docs |-> NoCount,
              documents |-> <<>>, pagination |-> <<>>]

TypeOK ==
    /\ DOMAIN req = Requests
    /\ \A r \in Requests :
          req[r].pc \in {"idle", "received", "validating", "validated", "inserted", "stored",
                         "extracted", "updated", "done", "rejected", "failed"}
    /\ DOMAIN docs \subseteq ObjectIds
    /\ clock \in Nat
    /\ tmp \subseteq Requests
    /\ listing.pc \in {"idle", "counted", "answered"}

Init ==
    /\ req \in [Requests -> {NewRequest(f) : f \in PipelineFiles}]
    /\ docs = <<>>
    /\ s3 = <<>>
    /\ clock = 0
    /\ lastFetch = NoFetch
    /\ tmp = {}
    /\ listing = NoListing

\* two concurrent uploads of a valid file next to a reader that has issued no
\* listing; the other requests stay idle
InitListing ==
    /\ req = [r \in Requests |-> IF r \in {1, 2}
                                  THEN NewRequest(GoodFile("a.pdf", <<"a", "">>))
                                  ELSE IdleRequest]
    /\ docs = <<>>
    /\ s3 = <<>>
    /\ clock = 0
    /\ lastFetch = NoFetch
    /\ tmp = {}
    /\ listing = NoListing

\* one request over every upload of the validator's input space
InitValidator ==
    /\ \E f \in AllFiles :
          req = [r \in Requests |-> IF r = 1 THEN NewRequest(f) ELSE IdleRequest]
    /\ docs = <<>>
    /\ s3 = <<>>
    /\ clock = 0
    /\ lastFetch = NoFetch
    /\ tmp = {}
    /\ listing = NoListing

(* --------------------------- collaborators ----------------------------- *)
\* exceptions: an HTTPException(status_code, detail) or any other Exception(msg)
HTTPException(status, detail) == [http |-> TRUE, status |-> status, msg |-> detail]
Error(msg) == [http |-> FALSE, status |-> 0, msg |-> msg]

\* str(e): Starlette's HTTPException prints "<status_code>: <detail>"
StrOf(e) == IF e.http THEN ToString(e.status) \o ": " \o e.msg ELSE e.msg

MongoError == "connection closed"
BotoError == "Unable to locate credentials"
PlumberError == "Unexpected EOF"
NoneError == "'NoneType' object is not subscriptable"

\* the ObjectId insert_one gives the new record: one no record has
NewObjectId(coll) ==
    CHOOSE id \in ObjectIds :
        /\ id \notin DOMAIN coll
        /\ \A other \in ObjectIds : other < id => other \in DOMAIN coll

\* collection.insert_one(doc)
InsertOne(coll, id, doc) == coll @@ (id :> doc)

\* an update whose filter matches every record
UpdateEvery(coll, id, fields) ==
    [d \in DOMAIN coll |->
        [coll[d] EXCEPT !.extracted_text = fields.extracted_text,
                        !.s3_uri = fields.s3_uri]]

\* an update that writes the object URI and leaves the text for a later write
UpdateOneUriOnly(coll, id, fields) ==
    [d \in DOMAIN coll |->
        IF d = id THEN [coll[d] EXCEPT !.s3_uri = fields.s3_uri] ELSE coll[d]]

\* collection.update_one({"_id": id}, {"$set": fields}): the collection after it
UpdateOne(coll, id, fields) ==
    [d \in DOMAIN coll |->
        IF d = id
        THEN [coll[d] EXCEPT !.extracted_text = fields.extracted_text,
                             !.s3_uri = fields.s3_uri]
        ELSE coll[d]]

\* update_result.modified_count of an acknowledged update
ModifiedCount(coll, id, fields) ==
    IF id \in DOMAIN coll /\ UpdateOne(coll, id, fields) # coll THEN 1 ELSE 0

\* collection.find_one({"_id": id}): the record, or None
FindOne(coll, id) == IF id \in DOMAIN coll THEN <<coll[id]>> ELSE <<>>

\* await file.read(): the bytes of the upload from the stream position on
ReadStream(f, pos) == [name |-> f.name, size |-> f.size - pos, from |-> pos, of |-> f]

\* s3_client.put_object(Bucket, Key, Body)
PutObject(bucket, key, body) ==
    [k \in DOMAIN bucket \cup {key} |-> IF k = key THEN body ELSE bucket[k]]

(* --------------------------- upload handler ---------------------------- *)
Response(status, detail, doc_id) ==
    [status |-> status, detail |-> detail, doc_id |-> doc_id]

\* initial_doc = {...}
InitialDoc(filename, now) ==
    [filename |-> filename, upload_time |-> now, extracted_text |-> "", s3_uri |-> ""]

\* updated_doc_data = {...}
UpdatedDocData(extracted_text, s3_url) ==
    [extracted_text |-> extracted_text, s3_uri |-> s3_url]

\* a stage of the request starts
Began(q, stage) == [q EXCEPT !.stages = Append(@, stage)]

\* raise HTTPException(status_code=400, detail=error_message)
Reject(q, error_message) ==
    [q EXCEPT !.pc = "rejected", !.resp = Append(@, Response(400, error_message, ""))]

\* the gate left open: an upload goes on whatever the validator returned
ValidationGateOpen(q, result) == [q EXCEPT !.pc = "validated"]

\* if not is_valid: raise ...; otherwise the handler goes on to the try block
ValidationGate(q, result) ==
    IF ~result[1] THEN Reject(q, result[2]) ELSE [q EXCEPT !.pc = "validated"]

\* detail=f"Upload to s3 failed: {str(e)}"
HandlerDetail(e) == "Upload to s3 failed: " \o StrOf(e)

\* a handler that runs the failed stage again instead of answering
OnPipelineErrorRetry(q, stage, e) == [q EXCEPT !.failedAt = stage]

\* except Exception as e: raise HTTPException(status_code=500, ...); the stage
\* the exception came from is kept in failedAt
OnPipelineError(q, stage, e) ==
    [q EXCEPT !.pc = "failed", !.failedAt = stage,
              !.resp = Append(@, Response(500, HandlerDetail(e), ""))]

\* a handler that deletes the placeholder when the pipeline fails
DocsRolledBack(coll, id) == [d \in DOMAIN coll \ {id} |-> coll[d]]

\* the collection after the except block: the handler removes nothing
DocsAfterError(coll, id) == coll

UpdateFailedDetail == "Failed to update document in database."

\* the check of modified_count left out
UpdateFailedNever(modified_count) == FALSE

\* if update_result.modified_count == 0: raise ...
UpdateFailed(modified_count) == modified_count = 0

\* an is_valid_upload that does not rewind the stream
PosNotReset(f, pos) == pos

\* is_valid_upload: read() to the end, then seek(0); an upload whose name is
\* refused is not read
PosAfterValidation(f, pos) == IF ~EndsWith(f.name, ".pdf") THEN pos ELSE 0

\* content = await upload_file.read(): the stream is read to its end
PosAfterRead(f, pos) == f.size

\* os.unlink(temp_path)
Unlink(files, r) == files \ {r}

\* is_valid_upload up to its read of the upload: a refused name returns at once;
\* otherwise the temporary copy is written and the stream is at its end
ReadUpload(r) ==
    /\ req[r].pc = "received"
    /\ LET q == Began(req[r], "validate")
       IN  IF ~EndsWith(q.file.name, ".pdf")
           THEN /\ tmp' = tmp
                /\ req' = [req EXCEPT ![r] =
                              ValidationGate([q EXCEPT !.valid = IsValidUpload(q.file)],
                                             IsValidUpload(q.file))]
           ELSE /\ tmp' = tmp \cup {r}
                /\ req' = [req EXCEPT ![r] =
                              [q EXCEPT !.pc = "validating",
                                        !.pos = PosAfterRead(q.file, q.pos)]]
    /\ UNCHANGED <<docs, s3, clock, lastFetch, listing>>

\* the rest of is_valid_upload (seek(0), is_valid on the copy, unlink) and the
\* handler's test of its result
Validate(r) ==
    /\ req[r].pc = "validating"
    /\ LET q == req[r]
           result == IsValidUpload(q.file)
           q1 == [q EXCEPT !.valid = result, !.pos = PosAfterValidation(q.file, q.pos)]
       IN  req' = [req EXCEPT ![r] = ValidationGate(q1, result)]
    /\ tmp' = Unlink(tmp, r)
    /\ UNCHANGED <<docs, s3, clock, lastFetch, listing>>

Insert(r) ==
    /\ req[r].pc = "validated"
    /\ \E outcome \in {"ok", "raise"} :
          LET q == Began(req[r], "insert")
              now == clock + 1
              doc == InitialDoc(q.file.name, now)
              id == NewObjectId(docs)
          IN  /\ clock' = now
              /\ IF outcome = "ok"
                 THEN /\ docs' = InsertOne(docs, id, doc)
                      /\ req' = [req EXCEPT ![r] =
                                    [q EXCEPT !.pc = "inserted", !.doc_id = id,
                                              !.inserted = doc]]
                 ELSE /\ docs' = docs
                      /\ req' = [req EXCEPT ![r] =
                                    OnPipelineError(q, "insert", Error(MongoError))]
    /\ UNCHANGED <<s3, lastFetch, tmp, listing>>

\* S3Service.upload_file_to_s3 called from the handler
S3Upload(r) ==
    /\ req[r].pc = "inserted"
    /\ \E outcome \in {"ok", "raise"} :
          LET q == Began(req[r], "object_store")
              key == S3Key(q.doc_id)
              content == ReadStream(q.file, q.pos)
              q1 == [q EXCEPT !.pos = q.file.size]
              wrapped(e) == HTTPException(500, "Upload to S3 failed: " \o StrOf(e))
          IN  IF ~IsValidObjectIdStr(ObjectIdStr(q.doc_id))
              THEN /\ s3' = s3
                   /\ docs' = DocsAfterError(docs, q.doc_id)
                   /\ req' = [req EXCEPT ![r] =
                                 OnPipelineError(q, "object_store",
                                     wrapped(HTTPException(400, "Invalid ObjectId format")))]
              ELSE IF outcome = "ok"
              THEN /\ s3' = PutObject(s3, key, content)
                   /\ docs' = docs
                   /\ req' = [req EXCEPT ![r] =
                                 [q1 EXCEPT !.pc = "stored", !.s3_url = S3Url(key)]]
              ELSE /\ s3' = s3
                   /\ docs' = DocsAfterError(docs, q.doc_id)
                   /\ req' = [req EXCEPT ![r] =
                                 OnPipelineError(q1, "object_store", wrapped(Error(BotoError)))]
    /\ UNCHANGED <<clock, lastFetch, tmp, listing>>

\* a handler that hands the stream on as the upload left it
SeekSkipped(pos) == pos

\* file.file.seek(0)
SeekStart(pos) == 0

\* file.file.seek(0); extracted_text = await self.pdf_extractor.extract_text(file)
Extract(r) ==
    /\ req[r].pc = "stored"
    /\ \E outcome \in {"ok", "raise"} :
          LET q == Began(req[r], "extract")
              q1 == [q EXCEPT !.pos = SeekStart(q.pos), !.extract_pos = SeekStart(q.pos)]
          IN  IF outcome = "ok"
              THEN /\ docs' = docs
                   /\ req' = [req EXCEPT ![r] =
                                 [q1 EXCEPT !.pc = "extracted",
                                            !.extracted_text =
                                                ExtractText(StreamPages(q1.file, q1.pos))]]
              ELSE /\ docs' = DocsAfterError(docs, q.doc_id)
                   /\ req' = [req EXCEPT ![r] =
                                 OnPipelineError(q1, "extract", Error(PlumberError))]
    /\ UNCHANGED <<s3, clock, lastFetch, tmp, listing>>

Update(r) ==
    /\ req[r].pc = "extracted"
    /\ \E outcome \in {"acknowledged", "zero", "raise"} :
          LET q == Began(req[r], "update")
              fields == UpdatedDocData(q.extracted_text, q.s3_url)
              count == IF outcome = "zero" THEN 0 ELSE ModifiedCount(docs, q.doc_id, fields)
              after == IF outcome = "acknowledged"
                       THEN UpdateOne(docs, q.doc_id, fields) ELSE docs
          IN  IF outcome = "raise"
              THEN /\ docs' = DocsAfterError(docs, q.doc_id)
                   /\ req' = [req EXCEPT ![r] =
                                 OnPipelineError(q, "update", Error(MongoError))]
              ELSE IF UpdateFailed(count)
              THEN /\ docs' = DocsAfterError(after, q.doc_id)
                   /\ req' = [req EXCEPT ![r] =
                                 OnPipelineError([q EXCEPT !.modified_count = count], "update",
                                     HTTPException(500, UpdateFailedDetail))]
              ELSE /\ docs' = after
                   /\ req' = [req EXCEPT ![r] =
                                 [q EXCEPT !.pc = "updated", !.modified_count = count]]
    /\ UNCHANGED <<s3, clock, lastFetch, tmp, listing>>

ReadBack(r) ==
    /\ req[r].pc = "updated"
    /\ \E outcome \in {"ok", "raise"} :
          LET q == Began(req[r], "readback")
              final_doc == FindOne(docs, q.doc_id)
          IN  IF outcome = "raise"
              THEN /\ docs' = DocsAfterError(docs, q.doc_id)
                   /\ req' = [req EXCEPT ![r] =
                                 OnPipelineError(q, "readback", Error(MongoError))]
              ELSE IF final_doc = <<>>
              THEN /\ docs' = DocsAfterError(docs, q.doc_id)
                   /\ req' = [req EXCEPT ![r] =
                                 OnPipelineError(q, "readback", Error(NoneError))]
              ELSE /\ docs' = docs
                   /\ req' = [req EXCEPT ![r] =
                                 [q EXCEPT !.pc = "done",
                                           !.resp = Append(@, Response(200,
                                               "PDF File uploaded to s3 and text extracted successfully",
                                               ObjectIdStr(q.doc_id)))]]
    /\ UNCHANGED <<s3, clock, lastFetch, tmp, listing>>

(* ------------------------------- reads --------------------------------- *)
FetchArgs == {ObjectIdStr(id) : id \in ObjectIds}
                \cup {"not-an-object-id", "65f0c0ffee0000000000000g"}

\* ObjectId(doc_id) of a string it accepts
ParseObjectId(s) == CHOOSE id \in ObjectIds : ObjectIdStr(id) = s

\* the uploads that have answered 200 with this doc_id
Succeeded(s) ==
    {r \in Requests : req[r].pc = "done" /\ req[r].resp[Len(req[r].resp)].doc_id = s}

\* get_document: the content of its 200 response
DocumentResponse(id, document) ==
    [filename |-> document.filename, upload_time |-> document.upload_time,
     extracted_text |-> document.extracted_text, s3_uri |-> ""]

\* a get_document that looks every identifier up and reports what it cannot
\* find, malformed or absent, as 404
GetDocumentLookupOnly(coll, s) ==
    IF ~IsValidObjectIdStr(s) \/ FindOne(coll, ParseObjectId(s)) = <<>>
    THEN [arg |-> s, status |-> 404, body |-> NoDoc, afterSuccess |-> FALSE,
          queried |-> TRUE]
    ELSE [arg |-> s, status |-> 200,
          body |-> DocumentResponse(ParseObjectId(s), coll[ParseObjectId(s)]),
          afterSuccess |-> Succeeded(s) # {}, queried |-> TRUE]

\* get_document: its response (queried: find_one was called)
GetDocument(coll, s) ==
    IF ~IsValidObjectIdStr(s)
    THEN [arg |-> s, status |-> 400, body |-> NoDoc, afterSuccess |-> FALSE,
          queried |-> FALSE]
    ELSE IF FindOne(coll, ParseObjectId(s)) = <<>>
    THEN [arg |-> s, status |-> 404, body |-> NoDoc, afterSuccess |-> FALSE,
          queried |-> TRUE]
    ELSE [arg |-> s, status |-> 200,
          body |-> DocumentResponse(ParseObjectId(s), coll[ParseObjectId(s)]),
          afterSuccess |-> Succeeded(s) # {}, queried |-> TRUE]

\* GET /documents/{doc_id}
Fetch(s) ==
    /\ lastFetch' = GetDocument(docs, s)
    /\ UNCHANGED <<req, docs, s3, clock, tmp, listing>>

\* the page and limit parameters of GET /documents: Query(1, ge=1) and
\* Query(10, ge=1, le=100)
ListPages == 1..MaxPage
ListLimits == {l \in 1..MaxLimit : l <= LimitCeiling}

\* count_documents({})
CountDocuments(coll) == Cardinality(DOMAIN coll)

\* find({}).sort("upload_time", -1): the identifiers, latest upload first
RECURSIVE SortByUploadTimeDesc(_, _)
SortByUploadTimeDesc(coll, ids) ==
    IF ids = {} THEN <<>>
    ELSE LET latest == CHOOSE i \in ids :
                          \A j \in ids : coll[j].upload_time <= coll[i].upload_time
         IN  <<latest>> \o SortByUploadTimeDesc(coll, ids \ {latest})

\* .skip(skip).limit(limit) of a sorted cursor
SkipLimit(seq, skip, limit) ==
    SubSeq(seq, skip + 1, IF skip + limit < Len(seq) THEN skip + limit ELSE Len(seq))

\* [:n] of a string
Truncate(text, n) == IF Len(text) <= n THEN text ELSE SubSeq(text, 1, n)

\* a preview that appends the ellipsis to whatever text there is
TextPreviewUnguarded(doc) == Truncate(doc.extracted_text, PreviewLen) \o "..."

\* doc.get("extracted_text", "")[:100] + "..." if doc.get("extracted_text") else ""
TextPreview(doc) ==
    IF doc.extracted_text # "" THEN Truncate(doc.extracted_text, PreviewLen) \o "..." ELSE ""

\* one element of "documents"
ListItem(id, doc) ==
    [doc_id |-> ObjectIdStr(id), filename |-> doc.filename,
     upload_time |-> doc.upload_time, text_preview |-> TextPreview(doc)]

\* the documents of the requested page
FindPage(coll, skip, limit) ==
    LET ids == SkipLimit(SortByUploadTimeDesc(coll, DOMAIN coll), skip, limit)
    IN  [i \in 1..Len(ids) |-> ListItem(ids[i], coll[ids[i]])]

\* total_pages = (total_docs + limit - 1) // limit
TotalPages(total_docs, limit) == (total_docs + limit - 1) \div limit

\* a has_next that counts the last page as having a successor
HasNextInclusive(page, total_pages) == page <= total_pages

\* "has_next": page < total_pages
HasNext(page, total_pages) == page < total_pages

\* the "pagination" object of the response
Pagination(total_docs, page, limit) ==
    [total |-> total_docs, page |-> page, limit |-> limit,
     pages |-> TotalPages(total_docs, limit),
     has_next |-> HasNext(page, TotalPages(total_docs, limit)),
     has_prev |-> page > 1]

\* get_documents up to the answer of count_documents
ListCount(page, limit) ==
    /\ listing.pc # "counted"
    /\ listing' = [NoListing EXCEPT !.pc = "counted", !.page = page, !.limit = limit,
                                     !.total_docs = CountDocuments(docs)]
    /\ UNCHANGED <<req, docs, s3, clock, lastFetch, tmp>>

\* get_documents from the cursor to the response
ListFind ==
    /\ listing.pc = "counted"
    /\ LET skip == (listing.page - 1) * listing.limit
       IN  listing' = [listing EXCEPT
                          !.pc = "answered",
                          !.documents = FindPage(docs, skip, listing.limit),
                          !.pagination = Pagination(listing.total_docs, listing.page,
                                                    listing.limit)]
    /\ UNCHANGED <<req, docs, s3, clock, lastFetch, tmp>>

Next ==
    \/ \E r \in Requests : ReadUpload(r)
    \/ \E r \in Requests : Validate(r)
    \/ \E r \in Requests : Insert(r)
    \/ \E r \in Requests : S3Upload(r)
    \/ \E r \in Requests : Extract(r)
    \/ \E r \in Requests : Update(r)
    \/ \E r \in Requests : ReadBack(r)
    \/ \E s \in FetchArgs : Fetch(s)

\* the uploads next to a reader of GET /documents
NextListing ==
    \/ \E r \in Requests : ReadUpload(r)
    \/ \E r \in Requests : Validate(r)
    \/ \E r \in Requests : Insert(r)
    \/ \E r \in Requests : S3Upload(r)
    \/ \E r \in Requests : Extract(r)
    \/ \E r \in Requests : Update(r)
    \/ \E r \in Requests : ReadBack(r)
    \/ \E page \in ListPages, limit \in ListLimits : ListCount(page, limit)
    \/ ListFind

Spec == Init /\ [][Next]_vars

SpecValidator == InitValidator /\ [][Next]_vars

SpecListing == InitListing /\ [][NextListing]_vars

(* ------------------------------ claims --------------------------------- *)
Last(seq) == seq[Len(seq)]

IsPrefix(a, b) == Len(a) <= Len(b) /\ \A i \in 1..Len(a) : a[i] = b[i]

Started(r) == req[r].pc \notin {"idle", "received", "validating"}

\* the record of request r is in the shape update_one gives it
Finalized(r) ==
    /\ req[r].doc_id \in DOMAIN docs
    /\ docs[req[r].doc_id] =
          [req[r].inserted EXCEPT !.extracted_text = req[r].extracted_text,
                                  !.s3_uri = req[r].s3_url]

\* the record of request r is as insert_one created it
Pending(r) ==
    /\ req[r].doc_id \in DOMAIN docs
    /\ docs[req[r].doc_id] = req[r].inserted
    /\ req[r].inserted.extracted_text = ""
    /\ req[r].inserted.s3_uri = ""

\* C1: an upload the validator refuses is answered 400 with nothing inserted,
\* stored or extracted, and every record (and every stored object) belongs to
\* an upload that passed validation before its insert.
C1_ValidationGatesPersistence ==
    /\ \A r \in Requests :
          (Started(r) /\ ~IsValidUpload(req[r].file)[1]) =>
              /\ req[r].pc = "rejected"
              /\ Len(req[r].resp) = 1
              /\ req[r].resp[1].status = 400
              /\ req[r].stages = <<"validate">>
              /\ req[r].doc_id = NoId
              /\ \A k \in DOMAIN s3 : s3[k].of # req[r].file
    /\ \A id \in DOMAIN docs :
          \E r \in Requests :
              /\ req[r].doc_id = id
              /\ IsValidUpload(req[r].file)[1]
              /\ IsPrefix(<<"validate", "insert">>, req[r].stages)
    /\ \A k \in DOMAIN s3 :
          \E r \in Requests :
              /\ k = S3Key(req[r].doc_id)
              /\ IsValidUpload(req[r].file)[1]

C1_Witness ==
    \E r1, r2 \in Requests :
        /\ req[r1].pc = "rejected"
        /\ req[r1].resp = <<Response(400, SizeReason, "")>>
        /\ req[r2].pc = "done"
        /\ DOMAIN docs = {req[r2].doc_id}

\* C2, in every state: the record of an upload that answered 200 has a
\* non-empty extracted_text and s3_uri, and a fetch of its doc_id issued after
\* the 200 is answered 200 with that record's text.
C2_FetchAfterSuccess ==
    /\ \A r \in Requests :
          req[r].pc = "done" =>
              /\ Last(req[r].resp).status = 200
              /\ Last(req[r].resp).doc_id = ObjectIdStr(req[r].doc_id)
              /\ req[r].doc_id \in DOMAIN docs
              /\ docs[req[r].doc_id].extracted_text # ""
              /\ docs[req[r].doc_id].s3_uri # ""
    /\ lastFetch.afterSuccess =>
              /\ lastFetch.status = 200
              /\ lastFetch.body.extracted_text # ""
              /\ lastFetch.body =
                    DocumentResponse(ParseObjectId(lastFetch.arg),
                                     docs[ParseObjectId(lastFetch.arg)])

\* C2, from one fetch to the next: repeating the fetch of a successful
\* upload's doc_id gives the same response, whatever ran in between.
C2_FetchRepeats ==
    (lastFetch.afterSuccess /\ lastFetch'.afterSuccess /\ lastFetch'.arg = lastFetch.arg)
        => lastFetch' = lastFetch

\* C2: after an upload returned 200 with doc_id, every later fetch of that
\* doc_id, under any interleaving with other uploads and reads, finds a record
\* with non-empty extracted_text and s3_uri, and a repeated fetch returns the
\* same record.
C2_ReadAfterWrite == [](C2_FetchAfterSuccess) /\ [][C2_FetchRepeats]_vars

C2_Witness ==
    /\ lastFetch.afterSuccess
    /\ lastFetch.status = 200
    /\ \E r \in Requests : req[r].pc \in {"inserted", "stored", "extracted", "updated"}

\* C3: when a stage after the placeholder insert fails, the caller gets exactly
\* one response, a 500, and the placeholder stays in the repository as it was:
\* pending (empty extracted_text and s3_uri) when the failure precedes the
\* update, finalized when the read-back fails.
C3_FailureKeepsPlaceholder ==
    \A r \in Requests :
        (req[r].pc = "failed" /\ req[r].failedAt # "insert") =>
            /\ req[r].failedAt \in {"object_store", "extract", "update", "readback"}
            /\ Len(req[r].resp) = 1
            /\ req[r].resp[1].status = 500
            /\ IF req[r].failedAt = "readback" THEN Finalized(r) ELSE Pending(r)

C3_Witness ==
    \E r1, r2 \in Requests :
        /\ req[r1].pc = "failed" /\ req[r1].failedAt = "extract" /\ Pending(r1)
        /\ req[r2].pc = "failed" /\ req[r2].failedAt = "readback" /\ Finalized(r2)

\* C4, one step: every record stays, with its id, filename and upload_time,
\* and a non-empty extracted_text or s3_uri keeps its value.
C4_RecordStep ==
    \A id \in DOMAIN docs :
        /\ id \in DOMAIN docs'
        /\ docs'[id].filename = docs[id].filename
        /\ docs'[id].upload_time = docs[id].upload_time
        /\ docs[id].extracted_text # "" => docs'[id].extracted_text = docs[id].extracted_text
        /\ docs[id].s3_uri # "" => docs'[id].s3_uri = docs[id].s3_uri

\* C4: under every sequence of concurrent uploads and reads, extracted_text and
\* s3_uri of a record only go from empty to populated and are never emptied or
\* changed afterwards, and id, filename and upload_time never change.
C4_MonotoneFields == [][C4_RecordStep]_vars

C4_Witness ==
    \E r1, r2 \in Requests :
        /\ r1 # r2
        /\ req[r1].pc = "done" /\ req[r2].pc = "done"
        /\ req[r1].doc_id < req[r2].doc_id
        /\ Finalized(r1) /\ Finalized(r2)
        /\ docs[req[r1].doc_id].s3_uri # docs[req[r2].doc_id].s3_uri

\* the number of stages a request at pc has begun
StagesBegun(pc) ==
    CASE pc \in {"idle", "received"} -> 0
      [] pc \in {"validating", "validated", "rejected"} -> 1
      [] pc = "inserted" -> 2
      [] pc = "stored" -> 3
      [] pc = "extracted" -> 4
      [] pc = "updated" -> 5
      [] pc = "done" -> 6

\* C5: the stages of one request run in the order validate, insert, object
\* store, extract, update, read-back, each at most once and each only after
\* the one before it succeeded; the stage that fails is the last one to run.
C5_StagesInOrder ==
    \A r \in Requests :
        /\ IsPrefix(req[r].stages, StageOrder)
        /\ IF req[r].pc = "failed"
           THEN /\ Len(req[r].stages) >= 2
                /\ Last(req[r].stages) = req[r].failedAt
           ELSE /\ Len(req[r].stages) = StagesBegun(req[r].pc)
                /\ req[r].failedAt = ""

C5_Witness ==
    \E r1, r2 \in Requests :
        /\ req[r1].pc = "done" /\ req[r1].stages = StageOrder
        /\ req[r2].pc = "failed"
        /\ req[r2].stages = <<"validate", "insert", "object_store", "extract">>

\* the stage a failure message names: the handler's only label is "s3"
StageNamedBy(detail) ==
    IF StartsWith(detail, "Upload to s3 failed: ") THEN "object_store" ELSE ""

\* C6: a failure of a stage after validation is answered with one message that
\* names the stage the failure came from, and failures from different stages
\* never get messages naming the same stage.
C6_StageSpecificMessage ==
    /\ \A r \in Requests :
          req[r].pc = "failed" =>
              /\ Len(req[r].resp) = 1
              /\ StageNamedBy(req[r].resp[1].detail) = req[r].failedAt
    /\ \A r1, r2 \in Requests :
          (req[r1].pc = "failed" /\ req[r2].pc = "failed"
              /\ req[r1].failedAt # req[r2].failedAt)
          => StageNamedBy(req[r1].resp[1].detail) # StageNamedBy(req[r2].resp[1].detail)

\* C7: an update that reports zero modified records ends the upload in a
\* failure of the update stage carrying the no-modification cause; the
\* read-back and the success response are never reached.
C7_ZeroModifiedFails ==
    \A r \in Requests :
        req[r].modified_count = 0 =>
            /\ req[r].pc = "failed"
            /\ req[r].failedAt = "update"
            /\ req[r].stages = <<"validate", "insert", "object_store", "extract", "update">>
            /\ Len(req[r].resp) = 1
            /\ req[r].resp[1].status = 500
            /\ EndsWith(req[r].resp[1].detail, UpdateFailedDetail)

C7_Witness ==
    \E r1, r2 \in Requests :
        /\ req[r1].modified_count = 0 /\ req[r1].pc = "failed"
        /\ req[r2].modified_count = 1 /\ req[r2].pc = "done"

(* The seven checks of the validator, each read off the upload alone.       *)
Checks == 1..7

FailsCheck(k, f) ==
    CASE k = 1 -> ~EndsWith(f.name, ".pdf")
      [] k = 2 -> f.size < MinFileSize
      [] k = 3 -> f.head # PdfHeader
      [] k = 4 -> ~f.eof
      [] k = 5 -> f.parse = "raise" \/ Len(f.pages) = 0
      [] k = 6 -> f.parse = "ok" /\ Len(f.pages) > 0 /\ Strip(f.pages[1]) = ""
      [] k = 7 -> f.enc = "yes"

ReasonOfCheck(k, f) ==
    CASE k = 1 -> ExtensionReason
      [] k = 2 -> SizeReason
      [] k \in {3, 4} -> StructureReason
      [] k = 5 -> IF f.parse = "raise" THEN ContentFailedReason ELSE NoPagesReason
      [] k = 6 -> BlankReason
      [] k = 7 -> EncryptedReason

\* the first check of the order that the upload fails (0: it fails none)
FirstFailing(order, f) ==
    IF \A i \in 1..Len(order) : ~FailsCheck(order[i], f) THEN 0
    ELSE order[CHOOSE i \in 1..Len(order) :
                  /\ FailsCheck(order[i], f)
                  /\ \A j \in 1..(i - 1) : ~FailsCheck(order[j], f)]

ClaimedOrder == <<1, 2, 3, 4, 5, 6, 7>>
EncryptionFirstOrder == <<1, 2, 3, 4, 7, 5, 6>>

ValidatedAs(order, r) ==
    Started(r) =>
        IF FirstFailing(order, req[r].file) = 0
        THEN req[r].valid[1]
        ELSE req[r].valid =
                <<FALSE, ReasonOfCheck(FirstFailing(order, req[r].file), req[r].file)>>

\* C8 as claimed: the checks run in the order extension, size, header, EOF
\* marker, pages, blank first page, encrypted, and the reason returned is that
\* of the lowest-numbered check the upload fails.
C8_ClaimedCheckOrder == \A r \in Requests : ValidatedAs(ClaimedOrder, r)

\* C8 as amended: the order is extension, size, header, EOF marker, encrypted,
\* pages, blank first page; the reason returned is that of the first check of
\* this order that the upload fails.
C8_EncryptionBeforePages == \A r \in Requests : ValidatedAs(EncryptionFirstOrder, r)

C8_Witness ==
    /\ req[1].pc = "rejected"
    /\ FailsCheck(7, req[1].file) /\ FailsCheck(6, req[1].file)
    /\ \A k \in 1..4 : ~FailsCheck(k, req[1].file)
    /\ req[1].valid = <<FALSE, EncryptedReason>>

\* the reasons the validator gives the uploads rejected by check k
ReasonsOfCheck ==
    [k \in Checks |->
        {IsValidUpload(g)[2] : g \in {h \in AllFiles : FirstFailing(EncryptionFirstOrder, h) = k}}]

\* the failure classes: as claimed one per check, as amended header and EOF
\* marker are one class
ClaimedClass(k) == k
StructureClass(k) == IF k = 4 THEN 3 ELSE k

RejectedDetail(r) == req[r].resp[1].detail

\* C9 as claimed: uploads failing different checks (extension, size, header,
\* EOF marker, pages, blank first page, encrypted) get different reasons, and
\* the reason is the detail of the 400 response verbatim.
C9_ClaimedDistinctReasons ==
    \A r \in Requests :
        req[r].pc = "rejected" =>
            /\ RejectedDetail(r) = req[r].valid[2]
            /\ \A k \in Checks :
                  ClaimedClass(k) # ClaimedClass(FirstFailing(EncryptionFirstOrder, req[r].file))
                  => RejectedDetail(r) \notin ReasonsOfCheck[k]

\* C9 as amended: the same with a missing header and a missing EOF marker as
\* one class, which share the reason "missing header or EOF marker".
C9_DistinctReasons ==
    \A r \in Requests :
        req[r].pc = "rejected" =>
            /\ RejectedDetail(r) = req[r].valid[2]
            /\ req[r].resp[1].status = 400
            /\ \A k \in Checks :
                  StructureClass(k) # StructureClass(FirstFailing(EncryptionFirstOrder, req[r].file))
                  => RejectedDetail(r) \notin ReasonsOfCheck[k]

C9_Witness ==
    /\ req[1].pc = "rejected"
    /\ FirstFailing(EncryptionFirstOrder, req[1].file) = 6
    /\ RejectedDetail(1) = BlankReason
    /\ \A k \in Checks : ReasonsOfCheck[k] # {}

\* C10 as claimed: an upload shorter than the minimum size is refused with the
\* size reason, whatever else it is.
C10_ClaimedSizeReason ==
    \A r \in Requests :
        (Started(r) /\ req[r].file.size < MinFileSize)
        => req[r].valid = <<FALSE, SizeReason>>

\* C10 as amended: an upload whose name ends in .pdf and that is shorter than
\* the minimum size is refused with the size reason, whatever its bytes are.
C10_SizeReasonForPdfNames ==
    \A r \in Requests :
        (Started(r) /\ req[r].file.size < MinFileSize /\ EndsWith(req[r].file.name, ".pdf"))
        => /\ req[r].valid = <<FALSE, SizeReason>>
           /\ req[r].pc = "rejected"
           /\ RejectedDetail(r) = SizeReason

C10_Witness ==
    /\ req[1].pc = "rejected"
    /\ req[1].file.size = MinFileSize - 1
    /\ req[1].file.head # PdfHeader
    /\ req[1].file.enc = "yes"
    /\ req[1].valid = <<FALSE, SizeReason>>

\* ---------------------------------------------------------------------------
\* C11: validation of malformed input

\* the validator has returned to the handler
ValidationReturned(r) == req[r].valid # NoResult

\* C11 as claimed: whenever the tail read, the encryption probe or the page
\* parse raises, the validator's result is negative
C11_ClaimedNegativeOnEveryRaise ==
    \A r \in Requests :
        (/\ ValidationReturned(r)
         /\ \/ req[r].file.size < TailWindow
            \/ req[r].file.enc = "raise"
            \/ req[r].file.parse = "raise") => ~req[r].valid[1]

\* C11: for every upload the validator returns a (bool, reason) pair and the
\* request goes on to either the pipeline or the 400, never anywhere else; a
\* raising tail read or page parse gives a negative result, while a raising
\* encryption probe is passed over and the remaining checks decide; when the
\* validator has returned, the temporary copy is gone, and the stream is at
\* position 0 when the handler takes its next step
C11_ValidationTotal ==
    \A r \in Requests :
        /\ ValidationReturned(r) =>
              /\ req[r].valid \in BOOLEAN \X STRING
              /\ req[r].valid[2] # ""
              /\ req[r].valid = IsValidUpload(req[r].file)
              /\ r \notin tmp
              /\ (req[r].pc \in {"validated", "rejected"}) => (req[r].pos = 0)
              /\ (req[r].pc = "rejected") <=> ~req[r].valid[1]
              /\ (req[r].file.size < TailWindow \/ req[r].file.parse = "raise")
                    => ~req[r].valid[1]
        /\ (r \in tmp) <=> (req[r].pc = "validating")

\* a page parse that raised was turned into a refusal, with no copy left behind
\* and the stream rewound
C11_Witness ==
    /\ req[1].pc = "rejected"
    /\ req[1].file.parse = "raise"
    /\ req[1].valid = <<FALSE, ContentFailedReason>>
    /\ req[1].pos = 0
    /\ tmp = {}

\* ---------------------------------------------------------------------------
\* C12: the outcomes of GET /documents/{id}

\* a step in which get_document answered
Fetched == lastFetch' # lastFetch /\ lastFetch'.status # 0

\* C12: a malformed identifier yields 400 and find_one is not called; a
\* well-formed identifier of no record yields 404; a well-formed identifier of
\* a record yields 200 with that record; so malformed and absent never share a
\* status
C12_FetchStep ==
    Fetched =>
        LET s == lastFetch'.arg
        IN  /\ ~IsValidObjectIdStr(s) =>
                  (lastFetch'.status = 400 /\ ~lastFetch'.queried)
            /\ (IsValidObjectIdStr(s) /\ ParseObjectId(s) \notin DOMAIN docs) =>
                  (lastFetch'.status = 404 /\ lastFetch'.queried)
            /\ (IsValidObjectIdStr(s) /\ ParseObjectId(s) \in DOMAIN docs) =>
                  /\ lastFetch'.status = 200
                  /\ lastFetch'.body.filename = docs[ParseObjectId(s)].filename

\* C12: every answer of GET /documents/{id} falls in exactly one of the three
\* cases: 400 malformed (no query), 404 absent, 200 found
C12_FetchPartition == [][C12_FetchStep]_vars

\* a 24-character identifier with a non-hexadecimal digit was refused with 400
\* while records exist
C12_Witness ==
    /\ lastFetch.status = 400
    /\ Len(lastFetch.arg) = 24
    /\ ~lastFetch.queried
    /\ docs # <<>>

\* ---------------------------------------------------------------------------
\* C13: pagination of GET /documents

\* C13: an answered listing holds at most `limit` records, has_prev is page > 1
\* and has_next is page * limit < total, with total the count the same response
\* reports (the answer of its count_documents), whatever was inserted between
\* the count and the page query
C13_Pagination ==
    listing.pc = "answered" =>
        /\ listing.page >= 1 /\ listing.limit \in 1..LimitCeiling
        /\ Len(listing.documents) <= listing.limit
        /\ listing.pagination.total = listing.total_docs
        /\ listing.pagination.has_prev <=> (listing.page > 1)
        /\ listing.pagination.has_next <=>
              (listing.page * listing.limit < listing.pagination.total)

\* an upload inserted its record between the count and the page query: the
\* first page of two holds two records while the response totals one
C13_Witness ==
    /\ listing.pc = "answered"
    /\ listing.page = 1 /\ listing.limit = 2
    /\ listing.pagination.total = 1
    /\ Len(listing.documents) = 2
    /\ ~listing.pagination.has_next

\* ---------------------------------------------------------------------------
\* C15: a placeholder record is visible to readers

\* the listing of the whole collection
ListAll == FindPage(docs, 0, CountDocuments(docs))

\* C15: in every state in which a record is as insert_one left it, get_document
\* of its identifier answers 200 with an empty extracted_text, and the listing
\* holds the record with an empty preview; an answered listing shows every
\* record without text with an empty preview
C15_PendingVisible ==
    /\ \A r \in Requests :
          Pending(r) =>
              LET s == ObjectIdStr(req[r].doc_id)
              IN  /\ GetDocument(docs, s).status = 200
                  /\ GetDocument(docs, s).body.extracted_text = ""
                  /\ GetDocument(docs, s).body.filename = req[r].file.name
                  /\ \E i \in 1..Len(ListAll) :
                        /\ ListAll[i].doc_id = s
                        /\ ListAll[i].filename = req[r].file.name
                        /\ ListAll[i].text_preview = ""
    /\ listing.pc = "answered" =>
          \A i \in 1..Len(listing.documents) :
              \/ listing.documents[i].text_preview = ""
              \/ \E r \in Requests :
                    /\ ObjectIdStr(req[r].doc_id) = listing.documents[i].doc_id
                    /\ "update" \in {req[r].stages[k] : k \in 1..Len(req[r].stages)}

\* a listing answered between an insert and its update, the record still pending
C15_Witness ==
    /\ listing.pc = "answered"
    /\ \E r \in Requests :
          /\ Pending(r)
          /\ req[r].pc \in {"inserted", "stored", "extracted"}
          /\ \E i \in 1..Len(listing.documents) :
                /\ listing.documents[i].doc_id = ObjectIdStr(req[r].doc_id)
                /\ listing.documents[i].text_preview = ""

\* ---------------------------------------------------------------------------
\* C14: concurrent uploads keep to their own record and object

\* request r has a record
HasRecord(r) == req[r].doc_id # NoId

\* the records and the keys a step has written
WrittenRecords ==
    {id \in DOMAIN docs' : id \notin DOMAIN docs \/ docs'[id] # docs[id]}
WrittenKeys ==
    {k \in DOMAIN s3' : k \notin DOMAIN s3 \/ s3'[k] # s3[k]}

\* two requests with records have different identifiers and different keys
C14_DistinctRecords ==
    \A r1, r2 \in Requests :
        (r1 # r2 /\ HasRecord(r1) /\ HasRecord(r2)) =>
            /\ req[r1].doc_id # req[r2].doc_id
            /\ S3Key(req[r1].doc_id) # S3Key(req[r2].doc_id)

\* a step of request r writes no record but its own and no key but its own,
\* and nothing is ever removed
C14_OwnWrites ==
    /\ DOMAIN docs \subseteq DOMAIN docs'
    /\ DOMAIN s3 \subseteq DOMAIN s3'
    /\ \A r \in Requests :
          req'[r] # req[r] =>
              /\ \A o \in Requests \ {r} : req'[o] = req[o]
              /\ WrittenRecords \subseteq {req'[r].doc_id}
              /\ WrittenKeys \subseteq {S3Key(req'[r].doc_id)}
    /\ (\A r \in Requests : req'[r] = req[r]) => (docs' = docs /\ s3' = s3)

\* C14: concurrent uploads create records with different identifiers and
\* different object-store keys, and each request's update and object-store
\* write touch only its own record and key
C14_Isolation == [](C14_DistinctRecords) /\ [][C14_OwnWrites]_vars

\* two uploads ran to the end, each with its own record and its own object
C14_Witness ==
    /\ req[1].pc = "done" /\ req[2].pc = "done"
    /\ Finalized(1) /\ Finalized(2)
    /\ req[1].doc_id # req[2].doc_id
    /\ S3Key(req[1].doc_id) \in DOMAIN s3
    /\ S3Key(req[2].doc_id) \in DOMAIN s3

\* ---------------------------------------------------------------------------
\* C16: the extraction result

BlankLine == "\n\n"

\* the extractor has returned its text to request r
Extracted(r) ==
    \/ req[r].pc \in {"extracted", "updated", "done"}
    \/ req[r].pc = "failed" /\ req[r].failedAt \in {"update", "readback"}

HasText(t) == t # ""

\* the texts of the pages that yield text, in page order
YieldingTexts(pages) ==
    SelectSeq([i \in 1..Len(pages) |-> PageTextLayout(pages[i])], HasText)

\* the texts joined by a separator
RECURSIVE JoinedBy(_, _)
JoinedBy(texts, sep) ==
    IF texts = <<>> THEN ""
    ELSE IF Len(texts) = 1 THEN texts[1]
    ELSE texts[1] \o sep \o JoinedBy(Tail(texts), sep)

\* the texts, each followed by a separator
RECURSIVE EachFollowedBy(_, _)
EachFollowedBy(texts, sep) ==
    IF texts = <<>> THEN ""
    ELSE texts[1] \o sep \o EachFollowedBy(Tail(texts), sep)

\* C16 as claimed: the result equals the texts of the pages that yield text, in
\* page order, joined by the blank-line separator
C16_ClaimedJoined ==
    \A r \in Requests :
        Extracted(r) =>
            req[r].extracted_text = JoinedBy(YieldingTexts(req[r].file.pages), BlankLine)

\* C16: the result equals the texts of the pages that yield text, in page
\* order, each followed by the blank-line separator (the last one too); a page
\* yielding no text contributes neither a placeholder nor a separator
C16_EachFollowedBySeparator ==
    \A r \in Requests :
        Extracted(r) =>
            req[r].extracted_text =
                EachFollowedBy(YieldingTexts(req[r].file.pages), BlankLine)

\* a two-page upload whose second page yields no text has been extracted
C16_Witness ==
    /\ Extracted(1)
    /\ Len(req[1].file.pages) = 2
    /\ req[1].file.pages[2] = ""
    /\ req[1].extracted_text = PageTextLayout(req[1].file.pages[1]) \o BlankLine

\* ---------------------------------------------------------------------------
\* C17: the read position of the upload stream through one request

\* C17: validation hands the stream on at position 0; the object store holds
\* the complete bytes of the upload; the object-store upload leaves the stream
\* at its end; the extractor gets the stream at position 0 and its text is that
\* of the complete document
C17_StreamPosition ==
    \A r \in Requests :
        /\ req[r].pc = "validated" => req[r].pos = 0
        /\ req[r].pc = "inserted" => req[r].pos = 0
        /\ (HasRecord(r) /\ S3Key(req[r].doc_id) \in DOMAIN s3) =>
              /\ s3[S3Key(req[r].doc_id)] = ReadStream(req[r].file, 0)
              /\ s3[S3Key(req[r].doc_id)].size = req[r].file.size
        /\ req[r].pc = "stored" => req[r].pos = req[r].file.size
        /\ req[r].extract_pos # NoPos => req[r].extract_pos = 0
        /\ Extracted(r) =>
              /\ req[r].extract_pos = 0
              /\ req[r].extracted_text = ExtractText(req[r].file.pages)
              /\ req[r].extracted_text # ""

\* an upload was stored whole, left the stream at its end, and was extracted
\* from the start
C17_Witness ==
    \E r \in Requests :
        /\ req[r].pc = "extracted"
        /\ req[r].extract_pos = 0
        /\ s3[S3Key(req[r].doc_id)].from = 0
        /\ s3[S3Key(req[r].doc_id)].size = req[r].file.size
        /\ req[r].extracted_text # ""

\* ---------------------------------------------------------------------------
\* C18: one write sets the object URI and the text together

\* the stages request r has begun
StagesOf(r) == {req[r].stages[k] : k \in 1..Len(req[r].stages)}

\* no record has one of the two fields written and the other not; a record
\* that is written belongs to a request whose object-store upload and
\* extraction succeeded and whose one update reported one modification
C18_WrittenTogether ==
    /\ \A id \in DOMAIN docs :
          (docs[id].s3_uri # "") <=> (docs[id].extracted_text # "")
    /\ \A r \in Requests :
          (HasRecord(r) /\ docs[req[r].doc_id] # req[r].inserted) =>
              /\ Finalized(r)
              /\ Extracted(r)
              /\ req[r].modified_count = 1
              /\ docs[req[r].doc_id].s3_uri = S3Url(S3Key(req[r].doc_id))
              /\ S3Key(req[r].doc_id) \in DOMAIN s3
              /\ docs[req[r].doc_id].extracted_text = req[r].extracted_text
              /\ Cardinality({k \in 1..Len(req[r].stages) : req[r].stages[k] = "update"}) = 1

\* a step that changes a record finds both fields empty and leaves both set,
\* by the update stage of the request that inserted it
C18_SingleWrite ==
    \A id \in DOMAIN docs :
        docs'[id] # docs[id] =>
            /\ docs[id].s3_uri = "" /\ docs[id].extracted_text = ""
            /\ docs'[id].s3_uri # "" /\ docs'[id].extracted_text # ""
            /\ docs'[id].filename = docs[id].filename
            /\ docs'[id].upload_time = docs[id].upload_time
            /\ \E r \in Requests :
                  /\ req[r].doc_id = id
                  /\ req[r].pc = "extracted"
                  /\ req'[r].pc = "updated"

\* C18: a record is written after its insert by a single update that sets the
\* object URI and extracted_text together, only after the object-store upload
\* and the extraction have succeeded, and never again; so no record has one
\* of the two written while the other awaits its write
C18_AtomicFinalize == [](C18_WrittenTogether) /\ [][C18_SingleWrite]_vars

\* one upload has been finalized while the record of another is still pending
C18_Witness ==
    \E r1, r2 \in Requests :
        /\ req[r1].pc = "updated" /\ Finalized(r1) /\ ~Pending(r1)
        /\ req[r1].modified_count = 1
        /\ req[r2].pc = "stored" /\ Pending(r2)

\* ---------------------------------------------------------------------------
\* C19: records and stored objects agree

\* C19: every record with a non-empty object URI has an object under
\* documents/{id}.pdf for its own id and its URI ends in that key; every
\* object in the store lies under the key of an existing record and holds the
\* bytes of the upload that created the record
C19_StoreConsistent ==
    /\ \A id \in DOMAIN docs :
          docs[id].s3_uri # "" =>
              /\ S3Key(id) \in DOMAIN s3
              /\ EndsWith(docs[id].s3_uri, S3Key(id))
              /\ EndsWith(S3Key(id), ObjectIdStr(id) \o ".pdf")
    /\ \A k \in DOMAIN s3 :
          \E id \in DOMAIN docs :
              /\ k = S3Key(id)
              /\ \E r \in Requests : req[r].doc_id = id /\ s3[k].of = req[r].file

\* the converse fails: an object is stored for a record whose URI stayed empty
\* after a failed extraction, next to a record with its URI and object
C19_Witness ==
    \E r1, r2 \in Requests :
        /\ req[r1].pc = "failed" /\ req[r1].failedAt = "extract"
        /\ S3Key(req[r1].doc_id) \in DOMAIN s3
        /\ docs[req[r1].doc_id].s3_uri = ""
        /\ req[r2].pc = "done"
        /\ docs[req[r2].doc_id].s3_uri # ""
        /\ S3Key(req[r2].doc_id) \in DOMAIN s3

====
